---- MODULE Spec2Model ----
(***************************************************************************)
(* Smart DSR calculator: the loan inputs held by App, the schedule and     *)
(* DSR ratio that calculateDSR derives from them (src/App.tsx), and the    *)
(* advice request of the Results component (src/components/Results.tsx)    *)
(* with the advice service it calls (src/unnamed/part_000).                *)
(*                                                                         *)
(* Numbers.  A JavaScript number is modelled as an exact extended          *)
(* rational <<n, d>>: d > 0 is the fraction n/d in lowest terms, and       *)
(* d = 0 is one of the three special values the code can produce:          *)
(* <<0,0>> NaN, <<1,0>> +Infinity, <<-1,0>> -Infinity.  Rounding of        *)
(* IEEE-754 doubles and the sign of zero are not modelled: "equal within   *)
(* floating-point tolerance" is equality of the exact values.              *)
(***************************************************************************)
EXTENDS Integers, Sequences, FiniteSets, TLC

VARIABLES inputs, aiAdvice, loadingAi, pending, unhandledRejection

vars == <<inputs, aiAdvice, loadingAi, pending, unhandledRejection>>

(***************************************************************************)
(* Program constants and the bounds of the model.                          *)
(***************************************************************************)
MonthsPerYear == 12
StressAddOn == 3
PercentScale == 100

MaxLoanAmount == 2
MaxIncome == 2
\* Equal-installment schedules are explored only where the exact value of
\* loanAmount * r * Math.pow(1 + r, n) stays inside TLC's 32-bit integers:
\* at most MaxAnnuityMonths amortizing months, and the numerator of 1 + r
\* raised to n + 1 at most MaxPow.
MaxAnnuityMonths == 12
MaxPow == 100000000

(***************************************************************************)
(* Extended rational arithmetic (the JavaScript operators + - * / < on     *)
(* numbers, and Math.pow with an integer exponent).                        *)
(***************************************************************************)
Abs(n) == IF n < 0 THEN -n ELSE n

Sgn(n) == IF n < 0 THEN -1 ELSE IF n > 0 THEN 1 ELSE 0

RECURSIVE GCD(_, _)
GCD(a, b) == IF b = 0 THEN a ELSE GCD(b, a % b)

\* n/d for d > 0, in lowest terms.
Q(n, d) ==
    LET g == GCD(Abs(n), d)
    IN  <<Sgn(n) * (Abs(n) \div g), d \div g>>

Num(n) == <<n, 1>>

NaN == <<0, 0>>
Zero == <<0, 1>>
One == <<1, 1>>

IsNaN(x) == x = NaN
IsFinite(x) == x[2] > 0
IsInfinite(x) == x[2] = 0 /\ x[1] # 0

Neg(x) == <<-x[1], x[2]>>

Add(x, y) ==
    IF IsFinite(x) /\ IsFinite(y)
    THEN LET g == GCD(x[2], y[2])
         IN  Q(x[1] * (y[2] \div g) + y[1] * (x[2] \div g), (x[2] \div g) * y[2])
    ELSE IF IsNaN(x) \/ IsNaN(y) THEN NaN
    ELSE IF IsInfinite(x) /\ IsInfinite(y) THEN (IF x = y THEN x ELSE NaN)
    ELSE IF IsInfinite(x) THEN x ELSE y

Sub(x, y) == Add(x, Neg(y))

Mul(x, y) ==
    IF IsFinite(x) /\ IsFinite(y)
    THEN LET g1 == GCD(Abs(x[1]), y[2])
             g2 == GCD(Abs(y[1]), x[2])
         IN  IF x[1] = 0 \/ y[1] = 0 THEN Zero
             ELSE <<(x[1] \div g1) * (y[1] \div g2),
                    (x[2] \div g2) * (y[2] \div g1)>>
    ELSE IF IsNaN(x) \/ IsNaN(y) THEN NaN
    ELSE IF x[1] = 0 \/ y[1] = 0 THEN NaN
    ELSE <<Sgn(x[1]) * Sgn(y[1]), 0>>

\* x / y: a zero divisor gives NaN (0/0) or an infinity, as in JavaScript.
Div(x, y) ==
    IF IsNaN(x) \/ IsNaN(y) THEN NaN
    ELSE IF IsInfinite(y) THEN (IF IsInfinite(x) THEN NaN ELSE Zero)
    ELSE IF y[1] = 0 THEN <<Sgn(x[1]), 0>>
    ELSE Mul(x, <<Sgn(y[1]) * y[2], Abs(y[1])>>)

\* a/b < c/d for b > 0 and d > 0, by whole parts and then the reciprocals of
\* the fractional parts, so that no product is formed.
RECURSIVE LtFrac(_, _, _, _)
LtFrac(a, b, c, d) ==
    IF a \div b # c \div d THEN a \div b < c \div d
    ELSE IF c % d = 0 THEN FALSE
    ELSE IF a % b = 0 THEN TRUE
    ELSE LtFrac(d, c % d, b, a % b)

\* x < y; every comparison with NaN is false.
Lt(x, y) ==
    IF IsNaN(x) \/ IsNaN(y) THEN FALSE
    ELSE IF x = y THEN FALSE
    ELSE IF IsInfinite(x) THEN x[1] < 0
    ELSE IF IsInfinite(y) THEN y[1] > 0
    ELSE LtFrac(x[1], x[2], y[1], y[2])

Le(x, y) == ~IsNaN(x) /\ ~IsNaN(y) /\ (x = y \/ Lt(x, y))

\* x === y on numbers: NaN equals nothing, itself included.
NumEq(x, y) == ~IsNaN(x) /\ ~IsNaN(y) /\ x = y

\* Math.pow(x, n) for an integer n >= 0.
RECURSIVE Pow(_, _)
Pow(x, n) == IF n = 0 THEN One ELSE Mul(x, Pow(x, n - 1))

(***************************************************************************)
(* LoanInputs (types: src/components/InputField.tsx 69-78): the values     *)
(* explored for each field.  InputField passes parseFloat of the typed     *)
(* text, or 0 for an empty box, so zero, negative and fractional values    *)
(* all reach calculateDSR.                                                 *)
(***************************************************************************)
PrincipalInterestEqual == "PrincipalInterestEqual"
PrincipalEqual == "PrincipalEqual"
Housing == "Housing"
Other == "Other"

Keys == {"annualIncome", "loanAmount", "interestRate", "loanTermYear",
         "gracePeriodYear", "repaymentMethod", "collateralType", "applyStressDsr"}

Values(key) ==
    CASE key = "annualIncome"    -> {Num(k) : k \in -1..MaxIncome}
      [] key = "loanAmount"      -> {Num(k) : k \in 0..MaxLoanAmount}
      [] key = "interestRate"    -> {Num(0), Num(525), Num(600)}
      [] key = "loanTermYear"    -> {Num(0), Num(1), Num(2)}
      [] key = "gracePeriodYear" -> {Num(0), <<3, 4>>, <<5, 6>>, Num(1), Num(2)}
      [] key = "repaymentMethod" -> {PrincipalInterestEqual, PrincipalEqual}
      [] key = "collateralType"  -> {Housing, Other}
      [] key = "applyStressDsr"  -> BOOLEAN

(***************************************************************************)
(* calculateDSR (src/App.tsx 23-160).                                      *)
(***************************************************************************)
totalMonths(i) == Mul(i.loanTermYear, Num(MonthsPerYear))

graceMonths(i) == Mul(i.gracePeriodYear, Num(MonthsPerYear))

\* Mutant of monthlyRate: the display schedule run at the stressed rate.
monthlyRateStressed(i) ==
    Div(Div(Add(i.interestRate, IF i.applyStressDsr THEN Num(StressAddOn) ELSE Zero),
            Num(PercentScale)), Num(MonthsPerYear))

monthlyRate(i) == Div(Div(i.interestRate, Num(PercentScale)), Num(MonthsPerYear))

stressRate(i) == IF i.applyStressDsr THEN Num(StressAddOn) ELSE Zero

stressInterestRate(i) == Add(i.interestRate, stressRate(i))

stressMonthlyRate(i) ==
    Div(Div(stressInterestRate(i), Num(PercentScale)), Num(MonthsPerYear))

\* Math.pow(x, y): the exponent is always a whole, positive month count here
\* (the call is reached only when graceMonths < m <= totalMonths).
MathPow(x, y) == Pow(x, y[1])

\* Mutant of ActualStep: the EqualPrincipal portion divides by the months
\* still to run (remainingMonths, line 61) instead of the amortizing months.
ActualStepRemaining(i, m, st) ==
    LET interestPayment == Mul(st.remainingBalance, monthlyRate(i))
        inGrace == Le(Num(m), graceMonths(i))
        remainingMonths == Sub(totalMonths(i), Num(m - 1))
        effectiveRemainingMonths == Sub(totalMonths(i), graceMonths(i))
        n == effectiveRemainingMonths
        annuity ==
            Div(Mul(Mul(i.loanAmount, monthlyRate(i)),
                    MathPow(Add(One, monthlyRate(i)), n)),
                Sub(MathPow(Add(One, monthlyRate(i)), n), One))
        principalPayment ==
            IF inGrace THEN Zero
            ELSE IF i.repaymentMethod = PrincipalEqual
                 THEN Div(i.loanAmount, remainingMonths)
                 ELSE Sub(annuity, interestPayment)
        monthlyTotal ==
            IF inGrace THEN interestPayment
            ELSE IF i.repaymentMethod = PrincipalEqual
                 THEN Add(principalPayment, interestPayment)
                 ELSE annuity
        reduced == Sub(st.remainingBalance, principalPayment)
        remainingBalance == IF Lt(reduced, Zero) THEN Zero ELSE reduced
    IN  [remainingBalance |-> remainingBalance,
         monthlyPayments |->
             Append(st.monthlyPayments,
                    [month |-> m, payment |-> monthlyTotal,
                     principal |-> principalPayment,
                     interest |-> interestPayment,
                     balance |-> remainingBalance]),
         totalInterest |-> Add(st.totalInterest, interestPayment),
         totalPayment |-> Add(st.totalPayment, monthlyTotal)]

\* One iteration of the display loop (lines 53-91).
ActualStep(i, m, st) ==
    LET interestPayment == Mul(st.remainingBalance, monthlyRate(i))
        inGrace == Le(Num(m), graceMonths(i))
        effectiveRemainingMonths == Sub(totalMonths(i), graceMonths(i))
        n == effectiveRemainingMonths
        annuity ==
            Div(Mul(Mul(i.loanAmount, monthlyRate(i)),
                    MathPow(Add(One, monthlyRate(i)), n)),
                Sub(MathPow(Add(One, monthlyRate(i)), n), One))
        principalPayment ==
            IF inGrace THEN Zero
            ELSE IF i.repaymentMethod = PrincipalEqual
                 THEN Div(i.loanAmount, effectiveRemainingMonths)
                 ELSE Sub(annuity, interestPayment)
        monthlyTotal ==
            IF inGrace THEN interestPayment
            ELSE IF i.repaymentMethod = PrincipalEqual
                 THEN Add(principalPayment, interestPayment)
                 ELSE annuity
        reduced == Sub(st.remainingBalance, principalPayment)
        remainingBalance == IF Lt(reduced, Zero) THEN Zero ELSE reduced
    IN  [remainingBalance |-> remainingBalance,
         monthlyPayments |->
             Append(st.monthlyPayments,
                    [month |-> m, payment |-> monthlyTotal,
                     principal |-> principalPayment,
                     interest |-> interestPayment,
                     balance |-> remainingBalance]),
         totalInterest |-> Add(st.totalInterest, interestPayment),
         totalPayment |-> Add(st.totalPayment, monthlyTotal)]

\* Mutant of ActualLoop: the loop stops one month early (m < totalMonths).
RECURSIVE ActualLoopShort(_, _, _)
ActualLoopShort(i, m, st) ==
    IF Lt(Num(m), totalMonths(i))
    THEN LET next == ActualStep(i, m, st)
         IN  IF next.remainingBalance = next.remainingBalance
             THEN ActualLoopShort(i, m + 1, next)
             ELSE st
    ELSE st

\* for (let m = 1; m <= totalMonths; m++) (line 52), from month m on.  The
\* inner test only makes TLC evaluate the month's state before the next
\* iteration; it is always true.
RECURSIVE ActualLoop(_, _, _)
ActualLoop(i, m, st) ==
    IF Le(Num(m), totalMonths(i))
    THEN LET next == ActualStep(i, m, st)
         IN  IF next.remainingBalance = next.remainingBalance
             THEN ActualLoop(i, m + 1, next)
             ELSE st
    ELSE st

ActualSchedule(i) ==
    ActualLoop(i, 1, [remainingBalance |-> i.loanAmount,
                      monthlyPayments |-> <<>>,
                      totalInterest |-> Zero,
                      totalPayment |-> Zero])

\* Mutant of annualPrincipalBurden: the grace period ignored for Housing too.
annualPrincipalBurdenAverage(i) == Div(i.loanAmount, i.loanTermYear)

\* A. Principal burden (lines 97-115).
annualPrincipalBurden(i) ==
    IF i.collateralType = Housing
    THEN LET effectiveTermYear == Sub(i.loanTermYear, i.gracePeriodYear)
         IN  IF Lt(Zero, effectiveTermYear)
             THEN Div(i.loanAmount, effectiveTermYear)
             ELSE i.loanAmount
    ELSE Div(i.loanAmount, i.loanTermYear)

\* Mutant of StressStep: the stress pass starts repaying in the last grace
\* month (m >= graceMonths).
StressStepEarly(i, m, st) ==
    LET stressInt == Mul(st.stressBalance, stressMonthlyRate(i))
        effectiveRemainingMonths == Sub(totalMonths(i), graceMonths(i))
        n == effectiveRemainingMonths
        pmt ==
            Div(Mul(Mul(i.loanAmount, stressMonthlyRate(i)),
                    MathPow(Add(One, stressMonthlyRate(i)), n)),
                Sub(MathPow(Add(One, stressMonthlyRate(i)), n), One))
        stressPrincipal ==
            IF Le(graceMonths(i), Num(m))
            THEN IF i.repaymentMethod = PrincipalEqual
                 THEN Div(i.loanAmount, effectiveRemainingMonths)
                 ELSE Sub(pmt, stressInt)
            ELSE Zero
        reduced == Sub(st.stressBalance, stressPrincipal)
    IN  [totalStressInterest |-> Add(st.totalStressInterest, stressInt),
         stressBalance |-> IF Lt(reduced, Zero) THEN Zero ELSE reduced]

\* One iteration of the stress loop (lines 126-142).
StressStep(i, m, st) ==
    LET stressInt == Mul(st.stressBalance, stressMonthlyRate(i))
        effectiveRemainingMonths == Sub(totalMonths(i), graceMonths(i))
        n == effectiveRemainingMonths
        pmt ==
            Div(Mul(Mul(i.loanAmount, stressMonthlyRate(i)),
                    MathPow(Add(One, stressMonthlyRate(i)), n)),
                Sub(MathPow(Add(One, stressMonthlyRate(i)), n), One))
        stressPrincipal ==
            IF Lt(graceMonths(i), Num(m))
            THEN IF i.repaymentMethod = PrincipalEqual
                 THEN Div(i.loanAmount, effectiveRemainingMonths)
                 ELSE Sub(pmt, stressInt)
            ELSE Zero
        reduced == Sub(st.stressBalance, stressPrincipal)
    IN  [totalStressInterest |-> Add(st.totalStressInterest, stressInt),
         stressBalance |-> IF Lt(reduced, Zero) THEN Zero ELSE reduced]

\* for (let m = 1; m <= totalMonths; m++) (line 125), from month m on.
RECURSIVE StressLoop(_, _, _)
StressLoop(i, m, st) ==
    IF Le(Num(m), totalMonths(i))
    THEN LET next == StressStep(i, m, st)
         IN  IF next.stressBalance = next.stressBalance
             THEN StressLoop(i, m + 1, next)
             ELSE st
    ELSE st

totalStressInterest(i) ==
    StressLoop(i, 1, [totalStressInterest |-> Zero,
                      stressBalance |-> i.loanAmount]).totalStressInterest

\* Mutant of annualInterestBurden: the interest spread over the amortizing
\* years only.
annualInterestBurdenEffective(i) ==
    Div(totalStressInterest(i), Sub(i.loanTermYear, i.gracePeriodYear))

\* B. Interest burden (line 145).
annualInterestBurden(i) == Div(totalStressInterest(i), i.loanTermYear)

annualRepaymentForDsr(i) == Add(annualPrincipalBurden(i), annualInterestBurden(i))

\* Mutant of dsrRatio: the annualIncome > 0 guard dropped.
dsrRatioUnguarded(i) ==
    Mul(Div(annualRepaymentForDsr(i), i.annualIncome), Num(PercentScale))

\* Line 150.
dsrRatio(i) ==
    IF Lt(Zero, i.annualIncome)
    THEN Mul(Div(annualRepaymentForDsr(i), i.annualIncome), Num(PercentScale))
    ELSE Zero

\* The divisors of the divisions that lines 101-157 execute for the principal
\* burden, the interest burden and avgMonthlyPayment (none where the guard
\* of line 105 skips the division).
DsrDivisors(i) ==
    [principalBurden |->
         IF i.collateralType = Housing
         THEN LET effectiveTermYear == Sub(i.loanTermYear, i.gracePeriodYear)
              IN  IF Lt(Zero, effectiveTermYear) THEN {effectiveTermYear} ELSE {}
         ELSE {i.loanTermYear},
     interestBurden |-> {i.loanTermYear},
     avgMonthlyPayment |-> {totalMonths(i)}]

\* The CalculationResult returned at lines 152-159.
calculateDSR(i) ==
    LET actual == ActualSchedule(i)
    IN  [dsrRatio |-> dsrRatio(i),
         monthlyPayments |-> actual.monthlyPayments,
         totalInterest |-> actual.totalInterest,
         totalPayment |-> actual.totalPayment,
         avgMonthlyPayment |-> Div(actual.totalPayment, totalMonths(i)),
         stressDsrRateUsed |-> stressInterestRate(i)]

(***************************************************************************)
(* The inputs whose two schedules the model can evaluate exactly: an       *)
(* equal-installment schedule with an amortizing month evaluates           *)
(* Math.pow(1 + rate, n) at the actual and at the stress rate.             *)
(***************************************************************************)
RECURSIVE PowFits(_, _, _)
PowFits(a, n, limit) ==
    IF n = 0 THEN limit >= 1 ELSE a <= limit /\ PowFits(a, n - 1, limit \div a)

Representable(i) ==
    LET n == Sub(totalMonths(i), graceMonths(i))
        b == Add(One, monthlyRate(i))
        sb == Add(One, stressMonthlyRate(i))
    IN  IF \/ i.repaymentMethod = PrincipalEqual
           \/ ~Lt(Zero, n)
           \/ ~Lt(Zero, totalMonths(i))
        THEN TRUE
        ELSE /\ n[1] <= MaxAnnuityMonths
             /\ PowFits(b[1], n[1] + 1, MaxPow)
             /\ PowFits(sb[1], n[1] + 1, MaxPow)

(***************************************************************************)
(* The advice service (src/unnamed/part_000) and the Results component's   *)
(* advice state (src/components/Results.tsx).                              *)
(***************************************************************************)
\* aiAdvice is null (the empty sequence) or one advice: its text and the
\* inputs of the render whose handleAiAnalyze call produced it.
Null == <<>>

\* What ai.models.generateContent can do: resolve with text, resolve with
\* no text, or reject.
ServiceOutcomes == {"text", "empty", "reject"}

GeneratedText == "generated"
EmptyFallback == "cannot-generate"
ErrorFallback == "error-try-again"
AdviceStrings == {GeneratedText, EmptyFallback, ErrorFallback}

\* Mutant of analyzeDsrScenario: no catch around the service call.
analyzeDsrScenarioUncaught(outcome) ==
    IF outcome = "reject"
    THEN [settled |-> "rejected", value |-> "error"]
    ELSE [settled |-> "resolved",
          value |-> IF outcome = "text" THEN GeneratedText ELSE EmptyFallback]

\* analyzeDsrScenario (lines 6-58): how the promise it returns settles.
analyzeDsrScenario(outcome) ==
    IF outcome = "reject"
    THEN [settled |-> "resolved", value |-> ErrorFallback]
    ELSE [settled |-> "resolved",
          value |-> IF outcome = "text" THEN GeneratedText ELSE EmptyFallback]

RemoveAt(s, k) == [j \in 1..(Len(s) - 1) |-> IF j < k THEN s[j] ELSE s[j + 1]]

\* updateInput (App.tsx 163-165): setInputs stores a new inputs object, so
\* useMemo recomputes the result and the effect of Results.tsx 108-110
\* clears the advice, also when the value typed is the one already held.
updateInput(key, value) ==
    /\ Representable([inputs EXCEPT ![key] = value])
    /\ inputs' = [inputs EXCEPT ![key] = value]
    /\ aiAdvice' = Null
    /\ UNCHANGED <<loadingAi, pending, unhandledRejection>>

\* Mutant of HandleAiAnalyze: the button not disabled while loadingAi.
HandleAiAnalyzeEnabled ==
    /\ aiAdvice = Null
    /\ loadingAi' = TRUE
    /\ pending' = Append(pending, inputs)
    /\ UNCHANGED <<inputs, aiAdvice, unhandledRejection>>

\* handleAiAnalyze up to its await (Results.tsx 42-44).  The button is
\* rendered only while there is no advice and is disabled while loadingAi
\* (lines 174-177).  The call captures the inputs (and so the result) of
\* the render it was made in.
HandleAiAnalyze ==
    /\ aiAdvice = Null
    /\ ~loadingAi
    /\ loadingAi' = TRUE
    /\ pending' = Append(pending, inputs)
    /\ UNCHANGED <<inputs, aiAdvice, unhandledRejection>>

\* The awaited call settles and handleAiAnalyze resumes (Results.tsx 44-46).
\* A rejection would leave the function at the await.
AdviceSettles ==
    \E k \in 1..Len(pending) : \E outcome \in ServiceOutcomes :
        LET r == analyzeDsrScenario(outcome)
        IN  /\ pending' = RemoveAt(pending, k)
            /\ IF r.settled = "resolved"
               THEN /\ aiAdvice' = <<[text |-> r.value, from |-> pending[k]]>>
                    /\ loadingAi' = FALSE
                    /\ UNCHANGED unhandledRejection
               ELSE /\ unhandledRejection' = TRUE
                    /\ UNCHANGED <<aiAdvice, loadingAi>>
            /\ UNCHANGED inputs

(***************************************************************************)
(* Spec: the page with its advice panel, over a small set of inputs.       *)
(* EngineSpec: the input form alone, every field over all its values, so   *)
(* that calculateDSR is evaluated on every representable input.            *)
(***************************************************************************)
UiKeys == {"loanAmount", "repaymentMethod", "collateralType", "applyStressDsr"}

StartInputs ==
    [annualIncome |-> Num(MaxIncome), loanAmount |-> Num(1),
     interestRate |-> Num(525), loanTermYear |-> Num(1),
     gracePeriodYear |-> <<3, 4>>, repaymentMethod |-> PrincipalInterestEqual,
     collateralType |-> Housing, applyStressDsr |-> FALSE]

Mounted ==
    /\ aiAdvice = Null
    /\ loadingAi = FALSE
    /\ pending = <<>>
    /\ unhandledRejection = FALSE

Init == inputs = StartInputs /\ Mounted

UiUpdate == \E key \in UiKeys : \E value \in Values(key) : updateInput(key, value)

Next == UiUpdate \/ HandleAiAnalyze \/ AdviceSettles

Spec == Init /\ [][Next]_vars

EngineUpdate == \E key \in Keys : \E value \in Values(key) : updateInput(key, value)

EngineNext == EngineUpdate

EngineSpec == Init /\ [][EngineNext]_vars

(***************************************************************************)
(* Claims about calculateDSR, checked under EngineSpec.                    *)
(***************************************************************************)
Schedule(i) == calculateDSR(i).monthlyPayments

RECURSIVE SumPrincipal(_, _)
SumPrincipal(s, k) == IF k = 0 THEN Zero ELSE Add(SumPrincipal(s, k - 1), s[k].principal)

ValidParameters(i) ==
    /\ Le(Zero, i.loanAmount)
    /\ Le(Zero, i.interestRate)
    /\ Le(One, i.loanTermYear)
    /\ Le(Zero, i.gracePeriodYear)
    /\ Lt(i.gracePeriodYear, i.loanTermYear)

\* C1: for valid parameters (loanAmount >= 0, interestRate >= 0, term >= 1,
\* 0 <= grace < term, either method) every balance of the actual schedule
\* is >= 0 and <= the balance before it (the first <= loanAmount).
C1_BalanceNonIncreasing ==
    ValidParameters(inputs) =>
        LET s == Schedule(inputs)
        IN  \A k \in 1..Len(s) :
                /\ Le(Zero, s[k].balance)
                /\ Le(s[k].balance,
                      IF k = 1 THEN inputs.loanAmount ELSE s[k - 1].balance)

\* C2: for valid parameters and both methods the principal portions of the
\* actual schedule sum to loanAmount and the last balance is 0.
C2_PrincipalSumsToLoan ==
    ValidParameters(inputs) =>
        LET s == Schedule(inputs)
        IN  /\ Len(s) > 0
            /\ NumEq(SumPrincipal(s, Len(s)), inputs.loanAmount)
            /\ NumEq(s[Len(s)].balance, Zero)

\* C3: in every entry of the actual schedule principal + interest equals
\* payment.
C3_PaymentIsPrincipalPlusInterest ==
    LET s == Schedule(inputs)
    IN  \A k \in 1..Len(s) :
            NumEq(Add(s[k].principal, s[k].interest), s[k].payment)

\* C4: for loanTermYear >= 1 and every gracePeriodYear the actual schedule
\* has exactly loanTermYear * 12 entries and entry i has month = i.
C4_ScheduleLength ==
    Le(One, inputs.loanTermYear) =>
        LET s == Schedule(inputs)
        IN  /\ Num(Len(s)) = Mul(inputs.loanTermYear, Num(12))
            /\ \A k \in 1..Len(s) : s[k].month = k

C4_Witness ==
    /\ inputs.loanTermYear = Num(2)
    /\ Le(inputs.loanTermYear, inputs.gracePeriodYear)
    /\ LET s == Schedule(inputs) IN Len(s) = 24 /\ s[24].month = 24

\* C5: dsrRatio is exactly 0 whenever annualIncome <= 0, and is never
\* negative for loanAmount >= 0, interestRate >= 0, term >= 1, grace >= 0.
C5_DsrZeroOrNonNegative ==
    LET r == calculateDSR(inputs)
    IN  /\ Le(inputs.annualIncome, Zero) => r.dsrRatio = Zero
        /\ (/\ Le(Zero, inputs.loanAmount)
            /\ Le(Zero, inputs.interestRate)
            /\ Le(One, inputs.loanTermYear)
            /\ Le(Zero, inputs.gracePeriodYear))
           => ~Lt(r.dsrRatio, Zero)

C5_Witness ==
    /\ Le(inputs.annualIncome, Zero)
    /\ Lt(Zero, inputs.loanAmount)
    /\ Lt(Zero, inputs.interestRate)
    /\ Le(One, inputs.loanTermYear)
    /\ Lt(Zero, annualRepaymentForDsr(inputs))
    /\ calculateDSR(inputs).dsrRatio = Zero

\* C6: no division of the DSR computation has a zero divisor: for
\* loanTermYear <= 0 (either collateral type) and for Housing with
\* grace >= term, the principal burden, the interest burden and
\* avgMonthlyPayment are computed without dividing by zero.
C6_NoZeroDivisor ==
    (\/ Le(inputs.loanTermYear, Zero)
     \/ (inputs.collateralType = Housing
         /\ Le(inputs.loanTermYear, inputs.gracePeriodYear)))
    => /\ Zero \notin DsrDivisors(inputs).principalBurden
       /\ Zero \notin DsrDivisors(inputs).interestBurden
       /\ Zero \notin DsrDivisors(inputs).avgMonthlyPayment

\* C7: two parameter sets that differ only in applyStressDsr have the same
\* monthlyPayments, totalInterest, totalPayment and avgMonthlyPayment.
Displayed(i) ==
    LET r == calculateDSR(i)
    IN  <<r.monthlyPayments, r.totalInterest, r.totalPayment, r.avgMonthlyPayment>>

StressFlipped(i) == [i EXCEPT !.applyStressDsr = ~i.applyStressDsr]

C7_DisplayIndependentOfStress ==
    Representable(StressFlipped(inputs)) =>
        Displayed(inputs) = Displayed(StressFlipped(inputs))

C7_Witness ==
    /\ inputs.applyStressDsr
    /\ inputs.repaymentMethod = PrincipalInterestEqual
    /\ Lt(Zero, inputs.interestRate)
    /\ Lt(Zero, inputs.annualIncome)
    /\ ValidParameters(inputs)
    /\ Lt(Zero, inputs.gracePeriodYear)
    /\ Representable(StressFlipped(inputs))
    /\ LET r == calculateDSR(inputs)
           f == calculateDSR(StressFlipped(inputs))
       IN  /\ r.dsrRatio # f.dsrRatio
           /\ r.stressDsrRateUsed # f.stressDsrRateUsed
           /\ r.monthlyPayments = f.monthlyPayments
           /\ r.totalInterest = f.totalInterest

\* C8: for annualIncome > 0, dsrRatio is
\* ((annualPrincipalBurden + totalStressInterest / loanTermYear) / annualIncome) * 100
\* with annualPrincipalBurden = loanAmount / (term - grace) for Housing when
\* term - grace > 0, loanAmount for Housing otherwise, and
\* loanAmount / loanTermYear for Other whatever the grace period.
ClaimedPrincipalBurden(i) ==
    IF i.collateralType = Other THEN Div(i.loanAmount, i.loanTermYear)
    ELSE IF Lt(i.gracePeriodYear, i.loanTermYear)
         THEN Div(i.loanAmount, Sub(i.loanTermYear, i.gracePeriodYear))
         ELSE i.loanAmount

C8_DsrFormula ==
    Lt(Zero, inputs.annualIncome) =>
        calculateDSR(inputs).dsrRatio =
            Mul(Div(Add(ClaimedPrincipalBurden(inputs),
                        Div(totalStressInterest(inputs), inputs.loanTermYear)),
                    inputs.annualIncome),
                Num(100))

C8_Witness ==
    /\ Lt(Zero, inputs.annualIncome)
    /\ Lt(Zero, inputs.loanAmount)
    /\ Lt(Zero, inputs.interestRate)
    /\ Lt(Zero, inputs.gracePeriodYear)
    /\ Lt(inputs.gracePeriodYear, inputs.loanTermYear)
    /\ inputs.collateralType = Other
    /\ Lt(Zero, totalStressInterest(inputs))
    /\ IsFinite(calculateDSR(inputs).dsrRatio)
    /\ Lt(Zero, calculateDSR(inputs).dsrRatio)

\* C11: for Housing with annualIncome > 0, loanAmount > 0, interestRate > 0,
\* a parameter set with 0 < gracePeriodYear < loanTermYear has a strictly
\* higher dsrRatio than the same set with gracePeriodYear = 0; its
\* annualPrincipalBurden is loanAmount / (term - grace), the other's is
\* loanAmount / term.
GraceRemoved(i) == [i EXCEPT !.gracePeriodYear = Zero]

HousingWithGrace(i) ==
    /\ i.collateralType = Housing
    /\ Lt(Zero, i.annualIncome)
    /\ Lt(Zero, i.loanAmount)
    /\ Lt(Zero, i.interestRate)
    /\ Lt(Zero, i.gracePeriodYear)
    /\ Lt(i.gracePeriodYear, i.loanTermYear)

C11_GraceRaisesHousingDsr ==
    (HousingWithGrace(inputs) /\ Representable(GraceRemoved(inputs))) =>
        LET z == GraceRemoved(inputs)
        IN  /\ annualPrincipalBurden(inputs) =
                   Div(inputs.loanAmount,
                       Sub(inputs.loanTermYear, inputs.gracePeriodYear))
            /\ annualPrincipalBurden(z) = Div(inputs.loanAmount, inputs.loanTermYear)
            /\ Lt(dsrRatio(z), dsrRatio(inputs))

C11_Witness ==
    /\ HousingWithGrace(inputs)
    /\ inputs.repaymentMethod = PrincipalInterestEqual
    /\ Representable(GraceRemoved(inputs))
    /\ IsFinite(dsrRatio(inputs))
    /\ Lt(Zero, dsrRatio(GraceRemoved(inputs)))
    /\ Lt(dsrRatio(GraceRemoved(inputs)), dsrRatio(inputs))

\* C12: of two parameter sets that differ only in collateralType, with
\* annualIncome > 0 and loanAmount > 0, the Other set has a strictly lower
\* dsrRatio than the Housing set when 0 < gracePeriodYear < loanTermYear,
\* and an equal dsrRatio when gracePeriodYear = 0.
AsOther(i) == [i EXCEPT !.collateralType = Other]

C12_OtherLowerThanHousing ==
    (/\ inputs.collateralType = Housing
     /\ Lt(Zero, inputs.annualIncome)
     /\ Lt(Zero, inputs.loanAmount))
    => /\ (Lt(Zero, inputs.gracePeriodYear)
           /\ Lt(inputs.gracePeriodYear, inputs.loanTermYear))
          => Lt(dsrRatio(AsOther(inputs)), dsrRatio(inputs))
       /\ inputs.gracePeriodYear = Zero
          => NumEq(dsrRatio(AsOther(inputs)), dsrRatio(inputs))

\* C13: of two parameter sets that differ only in applyStressDsr, with
\* annualIncome > 0, loanAmount > 0, loanTermYear >= 1 and
\* gracePeriodYear < loanTermYear, the one with applyStressDsr = true has
\* stressDsrRateUsed = interestRate + 3.0, a strictly greater total stress
\* interest and a strictly greater dsrRatio.
C13_StressRaisesDsr ==
    (/\ inputs.applyStressDsr
     /\ Lt(Zero, inputs.annualIncome)
     /\ Lt(Zero, inputs.loanAmount)
     /\ Le(One, inputs.loanTermYear)
     /\ Lt(inputs.gracePeriodYear, inputs.loanTermYear)
     /\ Representable(StressFlipped(inputs)))
    => LET f == StressFlipped(inputs)
       IN  /\ calculateDSR(inputs).stressDsrRateUsed =
                  Add(inputs.interestRate, Num(3))
           /\ Lt(totalStressInterest(f), totalStressInterest(inputs))
           /\ Lt(dsrRatio(f), dsrRatio(inputs))

\* C14: with EqualPrincipal, loanAmount > 0, interestRate > 0 and
\* gracePeriodYear < loanTermYear, every month after the grace months has
\* the principal portion loanAmount / (totalMonths - graceMonths) and a
\* strictly smaller interest portion in the month after it; in the grace
\* months the principal portion is 0 and the balance stays loanAmount.
EqualPrincipalCase(i) ==
    /\ i.repaymentMethod = PrincipalEqual
    /\ Lt(Zero, i.loanAmount)
    /\ Lt(Zero, i.interestRate)
    /\ Lt(i.gracePeriodYear, i.loanTermYear)

C14_EqualPrincipalSchedule ==
    EqualPrincipalCase(inputs) =>
        LET s == ActualSchedule(inputs).monthlyPayments
            n == Sub(totalMonths(inputs), graceMonths(inputs))
        IN  \A k \in 1..Len(s) :
                IF Le(Num(k), graceMonths(inputs))
                THEN /\ s[k].principal = Zero
                     /\ s[k].balance = inputs.loanAmount
                ELSE /\ s[k].principal = Div(inputs.loanAmount, n)
                     /\ k < Len(s) => Lt(s[k + 1].interest, s[k].interest)

C14_Witness ==
    /\ EqualPrincipalCase(inputs)
    /\ inputs.loanTermYear = Num(2)
    /\ inputs.gracePeriodYear = Num(1)
    /\ LET s == ActualSchedule(inputs).monthlyPayments
       IN  /\ Len(s) = 24
           /\ s[12].principal = Zero
           /\ s[12].balance = inputs.loanAmount
           /\ s[13].principal = Div(inputs.loanAmount, Num(12))
           /\ s[24].principal = s[13].principal
           /\ Lt(s[24].interest, s[23].interest)
           /\ Lt(Zero, s[24].interest)

\* C15: the stress pass accumulates the total interest that the actual pass
\* accumulates when run at the stress rate as its nominal rate, for every
\* parameter set; with applyStressDsr = false stressDsrRateUsed is
\* interestRate and the stress total is the totalInterest of the actual
\* schedule.  Equal means the same outcome, NaN for NaN.
AtStressRate(i) ==
    [i EXCEPT !.interestRate = stressInterestRate(i), !.applyStressDsr = FALSE]

C15_StressPassIsActualPass ==
    LET r == calculateDSR(inputs)
        t == totalStressInterest(inputs)
    IN  /\ t = ActualSchedule(AtStressRate(inputs)).totalInterest
        /\ ~inputs.applyStressDsr =>
               /\ r.stressDsrRateUsed = inputs.interestRate
               /\ t = r.totalInterest

C15_Witness ==
    /\ inputs.applyStressDsr
    /\ inputs.repaymentMethod = PrincipalInterestEqual
    /\ Lt(Zero, inputs.gracePeriodYear)
    /\ Lt(inputs.gracePeriodYear, inputs.loanTermYear)
    /\ LET t == totalStressInterest(inputs)
       IN  /\ IsFinite(t)
           /\ Lt(calculateDSR(inputs).totalInterest, t)
           /\ t = ActualSchedule(AtStressRate(inputs)).totalInterest

(***************************************************************************)
(* Claims about the advice panel, checked under Spec.                      *)
(***************************************************************************)
\* C9: in every reachable state, any advice text displayed was generated
\* from the currently displayed result.
C9_AdviceFromDisplayedResult ==
    aiAdvice # Null => calculateDSR(aiAdvice[1].from) = calculateDSR(inputs)

\* C10: analyzeDsrScenario always settles with a string (the generated text
\* or a fallback message) and never rejects into handleAiAnalyze, and no
\* step of an advice request (starting it, or its settling either way)
\* changes the inputs, from which useMemo derives the CalculationResult.
C10_AdviceFailureContained ==
    /\ [](/\ ~unhandledRejection
          /\ \A k \in 1..Len(aiAdvice) : aiAdvice[k].text \in AdviceStrings)
    /\ [][pending' # pending => inputs' = inputs]_vars

C10_Witness ==
    /\ aiAdvice # Null
    /\ aiAdvice[1].text = ErrorFallback
    /\ ~loadingAi
    /\ pending = <<>>

\* C16: at most one advice request is outstanding at any time; a request
\* starts only while loadingAi is false and no advice is displayed;
\* loadingAi is true exactly while a request is outstanding, recalculations
\* in between included; and the arrival of a response leaves loadingAi false.
C16_OneOutstandingRequest ==
    /\ [](Len(pending) <= 1 /\ (loadingAi <=> pending # <<>>))
    /\ [][Len(pending') > Len(pending) => (~loadingAi /\ aiAdvice = Null)]_vars
    /\ [][Len(pending') < Len(pending) => ~loadingAi']_vars

C16_Witness ==
    /\ loadingAi
    /\ Len(pending) = 1
    /\ pending[1] # inputs
    /\ aiAdvice = Null

====
